---- MODULE Spec2Model ----
(***************************************************************************)
(* Model of the luum camera web clients.                                   *)
(*                                                                         *)
(* web-simple/src/App.tsx: the photo-booth client.  One React component    *)
(* holding the camera list, the camera's file tree, the countdown state    *)
(* and the two trigger counters; three effects (file tree, camera list,    *)
(* photo run) and the derived "latest files" list.                         *)
(*                                                                         *)
(* web/luum/src/App.tsx: the settings client.  App holds the camera list   *)
(* and the index of the selected camera; SettingsList holds the settings   *)
(* of the selected camera, the busy flag, the refresh counter and the      *)
(* favorites kept in localStorage under the camera's name.  This client    *)
(* does not install axios-retry: each of its requests is sent once.        *)
(* The two clients are separate pages: a specification runs one of them    *)
(* and leaves the state of the other as constructed.                       *)
(*                                                                         *)
(* JavaScript runs the component on one thread: the code between two       *)
(* `await`s is one atomic step, so every action below is the code that     *)
(* runs when one timer fires, one HTTP response arrives, one click is      *)
(* handled or the effects of a render run.  Time is not measured.  A `sleep(ms)` is a setTimeout: the     *)
(* model keeps what the timer rules of the browser guarantee, that a timer *)
(* does not fire before a timer that was started earlier with the same or  *)
(* a shorter delay.  Requests are answered after any delay, in any order.  *)
(***************************************************************************)
EXTENDS Integers, Sequences, FiniteSets, Bags, TLC

(***************************************************************************)
(* Program constants, web-simple/src/App.tsx lines 8-21.                   *)
(***************************************************************************)
RETRIES == 3
PHOTO_TIME_INITIAL == 5000
PHOTO_TIME_SUBSEQUENT == 3000
PHOTO_POST_WAIT == 0
SPINNER_GRANULARITY == 10
NUM_PHOTOS == 3
LATEST_COUNT == 3

(***************************************************************************)
(* Bounds of the model.                                                    *)
(***************************************************************************)
\* number of clicks on the preview, hence of photo runs, in one behaviour
MaxRuns == 2
\* number of children of a folder of a file tree
MaxKids == 3
\* largest mtime of a file
MaxMtime == 2

\* number of settings in a settings list
MaxSettings == 3
\* number of invocations of the setting update handler in one behaviour
MaxUpdates == 2

Runs == 1..MaxRuns

(***************************************************************************)
(* Values.  A state hook without initial value holds `undefined`.          *)
(***************************************************************************)
Undefined == [def |-> FALSE]
Some(v) == [def |-> TRUE, val |-> v]

Camera(name, port) == [name |-> name, port |-> port]

\* what GET /api/cameras can answer: no camera, a camera, or a camera
\* whose port is the empty string
CameraLists ==
  { << >>,
    << Camera("A", "usb:1") >>,
    << Camera("N", "") >> }

File(name, mtime, mimetype) ==
  [type |-> "file", name |-> name, mtime |-> mtime, mimetype |-> mimetype]

Folder(name, children) ==
  [type |-> "folder", name |-> name, children |-> children]

\* The file trees GET /api/hierarchy can answer.  The names in one folder
\* are distinct, as in a file system.
Files ==
  { File(n, m, "image/jpeg") : n \in {"a.jpg", "b.jpg"}, m \in 1..MaxMtime }
    \cup { File("x.png", MaxMtime, "image/png") }

NamesOf(S) == { x.name : x \in S }

\* sequences of k distinct names out of N
RECURSIVE NameSeqs(_, _)
NameSeqs(N, k) ==
  IF k = 0 THEN { << >> }
  ELSE UNION { { << n >> \o rest : rest \in NameSeqs(N \ {n}, k - 1) } : n \in N }

\* sequences of at most k distinct names out of N
NamesUpTo(N, k) == UNION { NameSeqs(N, j) : j \in 0..k }

\* the ways to pick, for every name of N, one node of S carrying it
RECURSIVE Choices(_, _)
Choices(S, N) ==
  IF N = {} THEN { << >> }
  ELSE LET n == CHOOSE m \in N : TRUE
       IN  { (n :> x) @@ c : x \in { y \in S : y.name = n },
                             c \in Choices(S, N \ {n}) }

\* the nodes picked by c for the names ns, in that order
RECURSIVE Pick(_, _)
Pick(c, ns) ==
  IF ns = << >> THEN << >> ELSE << c[ns[1]] >> \o Pick(c, Tail(ns))

\* sequences of at most MaxKids nodes of S with distinct names
KidSeqs(S) ==
  { Pick(c, ns) : ns \in NamesUpTo(NamesOf(S), MaxKids),
                  c \in Choices(S, NamesOf(S)) }

FileSeqs == KidSeqs(Files)

InnerFolders == { Folder("100", kids) : kids \in FileSeqs }

OuterFolders == { Folder("DCIM", kids) : kids \in FileSeqs }

RootNodes == Files \cup OuterFolders

\* a root folder of files and a folder "DCIM" of files
FlatTrees == { Folder("", kids) : kids \in KidSeqs(RootNodes) }

\* a root folder of a folder "DCIM" and a file, "DCIM" holding a folder
\* "100" of files and a file
DeepTrees ==
  { Folder("", << Folder("DCIM", << inner, f >>), g >>) :
      inner \in InnerFolders, f \in Files, g \in Files }

Trees == FlatTrees \cup DeepTrees

\* the tree of the spec's scenario B
ScenarioTree ==
  Folder("", << Folder("DCIM", << File("a.jpg", 100, "image/jpeg"),
                                  File("b.png", 200, "image/png"),
                                  File("c.jpg", 300, "image/jpeg") >>) >>)

SampleTrees == { ScenarioTree }

(***************************************************************************)
(* axios-retry, installed on the global axios instance (line 8).  A        *)
(* request is sent again when it failed with a network error or a 5xx      *)
(* answer, its method is idempotent (every request of this client is a     *)
(* GET) and fewer than `retries` retries were made.                        *)
(***************************************************************************)
ErrorKinds == {"network", "5xx", "4xx"}

isNetworkOrIdempotentRequestError(kind) == kind \in {"network", "5xx"}

\* attempts = HTTP requests already sent for the call, the first included
shouldRetry(kind, attempts) ==
  isNetworkOrIdempotentRequestError(kind) /\ attempts - 1 < RETRIES

(***************************************************************************)
(* Pure functions of the render, lines 114-128.                            *)
(***************************************************************************)
RECURSIVE flatMapRecurse(_, _, _)
RECURSIVE recurseFiles(_, _)

\* as recurseFiles, but a file of any mimetype is collected
recurseFilesAnyMime(obj, path) ==
  IF obj.type = "file"
    THEN << <<path, obj>> >>
    ELSE IF obj.type = "folder"
      THEN flatMapRecurse(obj.children, path \o "/" \o obj.name, 1)
      ELSE << >>

\* lines 114-123
recurseFiles(obj, path) ==
  IF obj.type = "file" /\ obj.mimetype = "image/jpeg"
    THEN << <<path, obj>> >>
    ELSE IF obj.type = "folder"
      THEN flatMapRecurse(obj.children, path \o "/" \o obj.name, 1)
      ELSE << >>

\* children.flatMap(c => recurseFiles(c, path)), from child k on
flatMapRecurse(children, path, k) ==
  IF k > Len(children) THEN << >>
  ELSE recurseFiles(children[k], path) \o flatMapRecurse(children, path, k + 1)

\* as insertSorted, but x goes before the elements of equal key: a sort
\* that reverses ties
RECURSIVE insertSortedBeforeEqual(_, _)
insertSortedBeforeEqual(sorted, x) ==
  IF sorted = << >> THEN << x >>
  ELSE IF sorted[1][2].mtime < x[2].mtime
    THEN << sorted[1] >> \o insertSortedBeforeEqual(Tail(sorted), x)
    ELSE << x >> \o sorted

\* lodash sortBy(list, "[1].mtime"): ascending and stable.  Insert x after
\* every element whose key is not greater.
RECURSIVE insertSorted(_, _)
insertSorted(sorted, x) ==
  IF sorted = << >> THEN << x >>
  ELSE IF sorted[1][2].mtime <= x[2].mtime
    THEN << sorted[1] >> \o insertSorted(Tail(sorted), x)
    ELSE << x >> \o sorted

RECURSIVE sortBy(_)
sortBy(list) ==
  IF list = << >> THEN << >>
  ELSE insertSorted(sortBy(SubSeq(list, 1, Len(list) - 1)), list[Len(list)])

reverse(list) == [k \in 1..Len(list) |-> list[Len(list) + 1 - k]]

slice(list, n) == SubSeq(list, 1, IF Len(list) < n THEN Len(list) ELSE n)

\* as flatten, but the traversal starts at the root folder itself
flattenFromRoot(files) == recurseFiles(files, "")

\* line 126: cameraFiles.children.flatMap(c => recurseFiles(c, ""))
flatten(files) == flatMapRecurse(files.children, "", 1)

\* lines 124-128
latestFiles(files) ==
  slice(reverse(IF files.def THEN sortBy(flatten(files.val)) ELSE << >>),
        LATEST_COUNT)

(***************************************************************************)
(* State, lines 48-53, and what is in flight.                              *)
(***************************************************************************)
VARIABLES
  cameras,            \* useState<Camera[]>(): Undefined or Some(list)
  cameraFiles,        \* useState<Folder>(): Undefined or Some(tree)
  triggerFileUpdate,  \* useState(0)
  triggerPhoto,       \* useState(0)
  countdownProgress,  \* useState(0)
  countdownTotal,     \* useState(0)
  camerasReq,         \* HTTP requests sent so far for the pending
                      \* GET /api/cameras call, 0 when none is pending
  hierarchyReqs,      \* bag of the pending GET /api/hierarchy calls, each
                      \* the number of HTTP requests sent so far for it
  run,                \* run[r]: the r-th invocation of the photo run
                      \* effect's async function
  timers,             \* the runs suspended in a sleep, in the order in
                      \* which their timers were started
  pendingEffect       \* the effect of the last render that has not run
                      \* yet: "files" (lines 62-70), "photo" (lines
                      \* 82-112) or "none"

simpleVars == << cameras, cameraFiles, triggerFileUpdate, triggerPhoto,
                 countdownProgress, countdownTotal, camerasReq, hierarchyReqs,
                 run, timers, pendingEffect >>

(***************************************************************************)
(* State of the settings client, web/luum/src/App.tsx lines 148-150, 206,  *)
(* 290-291, and what is in flight.                                         *)
(***************************************************************************)
VARIABLES
  luumCameras,        \* App: useState<Camera[]>([]), `cameras` in the source
  luumCamerasReq,     \* the GET /api/cameras of line 297 is pending
  listIdx,            \* App: useState(0), 0-based
  picked,             \* the entry the user picked last in the Select, -1
                      \* before the first pick
  loading,            \* SettingsList: useState(true)
  triggerRefresh,     \* SettingsList: useState(0)
  settings,           \* SettingsList: useState<Setting[]>([])
  localStorage,       \* camera name -> favorites list stored under it
  favorites,          \* SettingsList: the value the useLocalStorage hook
                      \* of line 206 holds
  pendingFetch,       \* the effects of the last render of SettingsList
                      \* that have not run yet: Undefined, or the port the
                      \* fetch effect asks for and the key the hook got
  settingsReqs,       \* the pending GET /api/settings requests, each with
                      \* its number in issue order and its port
  fetchesIssued,      \* number of GET /api/settings requests issued so far
  shown,              \* number of the request whose answer `settings`
                      \* holds, 0 before the first answer
  update              \* update[u]: the u-th invocation of the update
                      \* handler of lines 256-272

luumVars == << luumCameras, luumCamerasReq, listIdx, picked, loading,
               triggerRefresh, settings, localStorage, favorites,
               pendingFetch, settingsReqs, fetchesIssued, shown, update >>

vars == << cameras, cameraFiles, triggerFileUpdate, triggerPhoto,
           countdownProgress, countdownTotal, camerasReq, hierarchyReqs, run,
           timers, pendingEffect, luumCameras, luumCamerasReq, listIdx,
           picked, loading, triggerRefresh, settings, localStorage, favorites,
           pendingFetch, settingsReqs, fetchesIssued, shown, update >>

(***************************************************************************)
(* Values of the settings client.                                          *)
(***************************************************************************)
\* lines 129-140; the fields the client reads
Setting(id, path, type, readonly) ==
  [id |-> id, path |-> path, type |-> type, readonly |-> readonly]

\* the settings a camera can report: a choice, a readonly text, a
\* checkbox and a setting without control (type 0)
SettingPool ==
  << Setting(1, "/a", 5, 0), Setting(2, "/b", 2, 1),
     Setting(3, "/c", 4, 0), Setting(4, "/d", 0, 0) >>

\* sequences of k distinct numbers out of N
RECURSIVE IndexSeqs(_, _)
IndexSeqs(N, k) ==
  IF k = 0 THEN { << >> }
  ELSE UNION { { << n >> \o rest : rest \in IndexSeqs(N \ {n}, k - 1) } :
               n \in N }

\* what GET /api/settings can answer: at most MaxSettings settings of the
\* pool, in any order
SettingsLists ==
  { [k \in 1..Len(ix) |-> SettingPool[ix[k]]] :
      ix \in UNION { IndexSeqs(1..Len(SettingPool), n) : n \in 0..MaxSettings } }

SampleSettings ==
  { << SettingPool[1], SettingPool[2] >>,
    << SettingPool[2], SettingPool[1] >> }

\* what GET /api/cameras can answer to the settings client
LuumCameraLists ==
  { << >>,
    << Camera("A", "usb:1") >>,
    << Camera("A", "usb:1"), Camera("B", "usb:2") >> }

CameraNames == { "A", "B" }

\* what PUT /api/setting can end with: success, HTTP 500, another HTTP
\* error status, no response at all
PutOutcomes == { "ok", "500", "400", "network" }

Updates == 1..MaxUpdates

(***************************************************************************)
(* One invocation of the update handler, lines 256-272.                    *)
(*   pc         "none"   not invoked                                       *)
(*              "noop"   returned at line 257                              *)
(*              "put"    suspended in the axios.put of line 261            *)
(*              "done"   returned after line 271                           *)
(*              "threw"  rejected: line 268, or the TypeError of line 267  *)
(*   port, type, readonly   of the camera and the setting it was invoked   *)
(*              for                                                        *)
(*   outcome    how the PUT ended                                          *)
(*   puts       PUT requests sent                                          *)
(*   refreshes  setTriggerRefresh calls (line 271)                         *)
(*   error      what the caller's promise was rejected with                *)
(***************************************************************************)
NoUpdate ==
  [pc |-> "none", port |-> "", type |-> 0, readonly |-> 0, outcome |-> "none",
   puts |-> 0, refreshes |-> 0, error |-> "none"]

\* the settings client after construction: App rendered with no camera,
\* its camera list effect (lines 295-301) has sent its request
InitLuum ==
  /\ luumCameras = << >>
  /\ luumCamerasReq = TRUE
  /\ listIdx = 0
  /\ picked = -1
  /\ loading = TRUE
  /\ triggerRefresh = 0
  /\ settings = << >>
  /\ localStorage = [n \in CameraNames |-> << >>]
  /\ favorites = << >>
  /\ pendingFetch = Undefined
  /\ settingsReqs = {}
  /\ fetchesIssued = 0
  /\ shown = 0
  /\ update = [u \in Updates |-> NoUpdate]

(***************************************************************************)
(* One invocation of asyncEffect, lines 83-110.                            *)
(*   pc         where the invocation is suspended:                         *)
(*              "none"       not started                                   *)
(*              "initial"    line 89, sleep of the first countdown         *)
(*              "capture"    lines 93/103, inside captureImage's axios.get *)
(*              "postWait"   lines 94/104, sleep after a capture           *)
(*              "subsequent" line 99, sleep of a later countdown           *)
(*              "cooldown"   line 108                                      *)
(*              "done"       returned; "failed" rejected (line 111)        *)
(*   i          inner loop counter, lines 88 and 98                        *)
(*   j          outer loop counter, line 95                                *)
(*   attempts   HTTP requests sent for the pending capture call            *)
(* and what the invocation has done so far:                                *)
(*   phases     countdown phases begun (lines 86-87, 96-97)                *)
(*   ticks      progress values set in the current phase (lines 91, 101)   *)
(*   emitted    the last of them                                           *)
(*   issued     axios.get calls made by captureImage (line 58)             *)
(*   completed  of which resolved                                          *)
(*   rejected   of which threw                                             *)
(*   refreshes  setTriggerFileUpdate calls (line 109)                      *)
(***************************************************************************)
NoRun ==
  [pc |-> "none", i |-> 0, j |-> 0, attempts |-> 0, phases |-> 0, ticks |-> 0,
   emitted |-> 0, issued |-> 0, completed |-> 0, rejected |-> 0,
   refreshes |-> 0]

\* `!!cameras?.[0]?.port`, lines 57, 65 and 151
hasPort(cams) == cams.def /\ Len(cams.val) > 0 /\ cams.val[1].port # ""

Init ==
  /\ cameras = Undefined
  /\ cameraFiles = Undefined
  /\ triggerFileUpdate = 0
  /\ triggerPhoto = 0
  /\ countdownProgress = 0
  /\ countdownTotal = 0
  /\ camerasReq = 1          \* camera list effect, line 75
  /\ hierarchyReqs = EmptyBag \* file effect returned at line 65
  /\ run = [r \in Runs |-> NoRun]
  /\ timers = << >>
  /\ pendingEffect = "none"  \* the effects of the first render have run
  /\ InitLuum

(***************************************************************************)
(* Effects.  React runs the effects of a render after the render, in a     *)
(* task of its own: a handler that sets state leaves the effect whose      *)
(* dependencies changed pending.  The pending effect runs                  *)
(*   - in that task (RunEffects), or earlier,                              *)
(*   - when the next state update is processed, before the render of that  *)
(*     update: where a state update outside a React event handler renders  *)
(*     at once (react-dom before 18, or a legacy root) that is inside the  *)
(*     first setState call of the next handler; where such updates are     *)
(*     batched, the handler returns first and the effect stays pending.    *)
(* The build's React is not fixed by the source, so a handler that sets    *)
(* state either runs the pending effect at its first setState or leaves it *)
(* pending; a handler whose render makes another effect pending runs the   *)
(* pending one first.  At most one effect is pending: every render is      *)
(* preceded by the pending effects, and no render changes the dependencies *)
(* of two effects.                                                         *)
(***************************************************************************)
\* Update camera files effect, lines 62-70, up to its await
updateCameraFiles(cams, reqs) ==
  IF ~hasPort(cams) THEN reqs ELSE reqs (+) SetToBag({1})

\* Trigger camera photo run effect, lines 84-89, up to its first await:
\* the record of the invocation
startRun(rec) ==
  [rec EXCEPT !.pc = "initial", !.i = 0, !.phases = @ + 1, !.ticks = 0,
              !.emitted = 0]

\* what running the effect `eff` makes of the pending requests, the runs,
\* the timers and the countdown.  The closures of a pending effect hold
\* the state of the last render, which is the current state.
effectReqs(eff, reqs) ==
  IF eff = "files" THEN updateCameraFiles(cameras, reqs) ELSE reqs

effectRuns(eff, runs) ==
  IF eff = "photo" /\ triggerPhoto # 0
    THEN [runs EXCEPT ![triggerPhoto] = startRun(@)]
    ELSE runs

effectTimers(eff, tms) ==
  IF eff = "photo" /\ triggerPhoto # 0 THEN Append(tms, triggerPhoto) ELSE tms

effectProgress(eff, p) == IF eff = "photo" /\ triggerPhoto # 0 THEN 0 ELSE p

effectTotal(eff, t) ==
  IF eff = "photo" /\ triggerPhoto # 0 THEN PHOTO_TIME_INITIAL ELSE t

\* the pending effect runs in its own task
RunEffects ==
  /\ pendingEffect # "none"
  /\ hierarchyReqs' = effectReqs(pendingEffect, hierarchyReqs)
  /\ run' = effectRuns(pendingEffect, run)
  /\ timers' = effectTimers(pendingEffect, timers)
  /\ countdownProgress' = effectProgress(pendingEffect, countdownProgress)
  /\ countdownTotal' = effectTotal(pendingEffect, countdownTotal)
  /\ pendingEffect' = "none"
  /\ UNCHANGED << cameras, cameraFiles, triggerFileUpdate, triggerPhoto,
                  camerasReq >>
  /\ UNCHANGED luumVars

\* the effect that runs inside a handler: the pending one, or none
flushed(flush) == IF flush THEN pendingEffect ELSE "none"

\* the effect left pending by a handler that makes none pending itself
leftPending(flush) == IF flush THEN "none" ELSE pendingEffect

(***************************************************************************)
(* Get camera list effect, lines 73-79.                                    *)
(***************************************************************************)
\* GET /api/cameras answered: line 76.  The render with the new camera
\* list makes the file effect pending.
CamerasResponse(list) ==
  /\ camerasReq > 0
  /\ cameras' = Some(list)
  /\ camerasReq' = 0
  /\ hierarchyReqs' = effectReqs(pendingEffect, hierarchyReqs)
  /\ run' = effectRuns(pendingEffect, run)
  /\ timers' = effectTimers(pendingEffect, timers)
  /\ countdownProgress' = effectProgress(pendingEffect, countdownProgress)
  /\ countdownTotal' = effectTotal(pendingEffect, countdownTotal)
  /\ pendingEffect' = "files"
  /\ UNCHANGED << cameraFiles, triggerFileUpdate, triggerPhoto >>
  /\ UNCHANGED luumVars

CamerasError(kind) ==
  /\ camerasReq > 0
  /\ camerasReq' = IF shouldRetry(kind, camerasReq) THEN camerasReq + 1 ELSE 0
  /\ UNCHANGED << cameras, cameraFiles, triggerFileUpdate, triggerPhoto,
                  countdownProgress, countdownTotal, hierarchyReqs, run,
                  timers, pendingEffect >>
  /\ UNCHANGED luumVars

(***************************************************************************)
(* Answers to GET /api/hierarchy, lines 66-69.                             *)
(***************************************************************************)
\* a pending request is answered with one of `trees`: line 67
HierarchyResponse(trees) ==
  /\ \E a \in BagToSet(hierarchyReqs), flush \in BOOLEAN :
       /\ hierarchyReqs' =
            effectReqs(flushed(flush), hierarchyReqs (-) SetToBag({a}))
       /\ run' = effectRuns(flushed(flush), run)
       /\ timers' = effectTimers(flushed(flush), timers)
       /\ countdownProgress' = effectProgress(flushed(flush), countdownProgress)
       /\ countdownTotal' = effectTotal(flushed(flush), countdownTotal)
       /\ pendingEffect' = leftPending(flush)
       /\ \E tree \in trees : cameraFiles' = Some(tree)
  /\ UNCHANGED << cameras, triggerFileUpdate, triggerPhoto, camerasReq >>
  /\ UNCHANGED luumVars

HierarchyError(kind) ==
  /\ \E a \in BagToSet(hierarchyReqs) :
       hierarchyReqs' =
         IF shouldRetry(kind, a)
           THEN (hierarchyReqs (-) SetToBag({a})) (+) SetToBag({a + 1})
           ELSE hierarchyReqs (-) SetToBag({a})
  /\ UNCHANGED << cameras, cameraFiles, triggerFileUpdate, triggerPhoto,
                  countdownProgress, countdownTotal, camerasReq, run, timers,
                  pendingEffect >>
  /\ UNCHANGED luumVars

(***************************************************************************)
(* Photo run, lines 82-112.                                                *)
(***************************************************************************)
\* as progress, but from the loop counter before its increment
progressOffByOne(total, i) == (total * i) \div SPINNER_GRANULARITY

\* lines 90 and 100; the products are exact in IEEE doubles for these
\* constants, so integer arithmetic gives the same values
progress(total, i) == (total * (i + 1)) \div SPINNER_GRANULARITY

\* line 88 and line 98: the loop goes on
moreTicks(i) == i < SPINNER_GRANULARITY

\* as morePhotos, but one pass too many
morePhotosOneMore(j) == j < NUM_PHOTOS

\* line 95: the loop goes on
morePhotos(j) == j < NUM_PHOTOS - 1

\* captureImage, lines 56-59, up to its await.  The closure holds the
\* camera list of the render that created the effect; the list is set once
\* (line 79: no dependency), before any click is possible.
captureImage(cams, rec) ==
  IF ~hasPort(cams)
    THEN [rec EXCEPT !.pc = "postWait"]
    ELSE [rec EXCEPT !.pc = "capture", !.attempts = 1, !.issued = @ + 1]

\* sleep, lines 227-229: the delay of the timer the run is suspended in
sleepMs(rec) ==
  CASE rec.pc = "initial" -> PHOTO_TIME_INITIAL \div SPINNER_GRANULARITY
    [] rec.pc = "subsequent" -> PHOTO_TIME_SUBSEQUENT \div SPINNER_GRANULARITY
    [] rec.pc = "postWait" -> 1000 + PHOTO_POST_WAIT
    [] rec.pc = "cooldown" -> 3000

sleeping(rec) == rec.pc \in {"initial", "subsequent", "postWait", "cooldown"}

\* the timer of run r may fire: no timer started before it with the same
\* or a shorter delay is still pending
due(r) ==
  \A k \in 1..Len(timers) :
    timers[k] = r =>
      \A m \in 1..(k - 1) : sleepMs(run[timers[m]]) > sleepMs(run[r])

\* the timers `tms` once run r has gone on to rec
schedule(tms, r, rec) ==
  LET rest == SelectSeq(tms, LAMBDA q : q # r)
  IN IF sleeping(rec) THEN Append(rest, r) ELSE rest

\* onClick, line 159.  The render with the new triggerPhoto makes the
\* photo run effect pending.  MaxRuns bounds the clicks of a behaviour.
Click ==
  /\ hasPort(cameras)
  /\ triggerPhoto < MaxRuns
  /\ triggerPhoto' = triggerPhoto + 1
  /\ hierarchyReqs' = effectReqs(pendingEffect, hierarchyReqs)
  /\ run' = effectRuns(pendingEffect, run)
  /\ timers' = effectTimers(pendingEffect, timers)
  /\ countdownProgress' = effectProgress(pendingEffect, countdownProgress)
  /\ countdownTotal' = effectTotal(pendingEffect, countdownTotal)
  /\ pendingEffect' = "photo"
  /\ UNCHANGED << cameras, cameraFiles, triggerFileUpdate, camerasReq >>
  /\ UNCHANGED luumVars

\* the sleep of line 89 is over: lines 90-93.  setCountdownProgress (line
\* 91) is the first state update: a pending effect that runs there sets
\* the countdown after it and starts its timer before the next sleep of
\* this run.
TickInitial(r) ==
  /\ run[r].pc = "initial"
  /\ due(r)
  /\ \E flush \in BOOLEAN :
       LET p == progress(PHOTO_TIME_INITIAL, run[r].i)
           rec == [run[r] EXCEPT !.i = @ + 1, !.ticks = @ + 1, !.emitted = p]
           next == IF moreTicks(rec.i) THEN rec ELSE captureImage(cameras, rec)
       IN /\ countdownProgress' = effectProgress(flushed(flush), p)
          /\ countdownTotal' = effectTotal(flushed(flush), countdownTotal)
          /\ run' = [effectRuns(flushed(flush), run) EXCEPT ![r] = next]
          /\ timers' = schedule(effectTimers(flushed(flush), timers), r, next)
          /\ hierarchyReqs' = effectReqs(flushed(flush), hierarchyReqs)
          /\ pendingEffect' = leftPending(flush)
  /\ UNCHANGED << cameras, cameraFiles, triggerFileUpdate, triggerPhoto,
                  camerasReq >>
  /\ UNCHANGED luumVars

\* the sleep of line 99 is over: lines 100-103
TickSubsequent(r) ==
  /\ run[r].pc = "subsequent"
  /\ due(r)
  /\ \E flush \in BOOLEAN :
       LET p == progress(PHOTO_TIME_SUBSEQUENT, run[r].i)
           rec == [run[r] EXCEPT !.i = @ + 1, !.ticks = @ + 1, !.emitted = p]
           next == IF moreTicks(rec.i) THEN rec ELSE captureImage(cameras, rec)
       IN /\ countdownProgress' = effectProgress(flushed(flush), p)
          /\ countdownTotal' = effectTotal(flushed(flush), countdownTotal)
          /\ run' = [effectRuns(flushed(flush), run) EXCEPT ![r] = next]
          /\ timers' = schedule(effectTimers(flushed(flush), timers), r, next)
          /\ hierarchyReqs' = effectReqs(flushed(flush), hierarchyReqs)
          /\ pendingEffect' = leftPending(flush)
  /\ UNCHANGED << cameras, cameraFiles, triggerFileUpdate, triggerPhoto,
                  camerasReq >>
  /\ UNCHANGED luumVars

\* GET /api/capture/image answered: line 58 resolves, the run goes on to
\* the sleep of line 94 or 104; no state is set
CaptureResponse(r) ==
  /\ run[r].pc = "capture"
  /\ run' = [run EXCEPT ![r] =
               [@ EXCEPT !.pc = "postWait", !.attempts = 0, !.completed = @ + 1]]
  /\ timers' = schedule(timers, r, run'[r])
  /\ UNCHANGED << cameras, cameraFiles, triggerFileUpdate, triggerPhoto,
                  countdownProgress, countdownTotal, camerasReq, hierarchyReqs,
                  pendingEffect >>
  /\ UNCHANGED luumVars

\* as captureError, but the error of line 58 is caught and the run goes on
captureErrorSwallowed(rec, kind) ==
  IF shouldRetry(kind, rec.attempts)
    THEN [rec EXCEPT !.attempts = @ + 1]
    ELSE [rec EXCEPT !.pc = "postWait", !.attempts = 0, !.rejected = @ + 1]

\* GET /api/capture/image failed: axios-retry sends it again, or line 58
\* throws and the rejection ends the run at line 111
captureError(rec, kind) ==
  IF shouldRetry(kind, rec.attempts)
    THEN [rec EXCEPT !.attempts = @ + 1]
    ELSE [rec EXCEPT !.pc = "failed", !.rejected = @ + 1]

CaptureError(r, kind) ==
  /\ run[r].pc = "capture"
  /\ run' = [run EXCEPT ![r] = captureError(@, kind)]
  /\ timers' = schedule(timers, r, run'[r])
  /\ UNCHANGED << cameras, cameraFiles, triggerFileUpdate, triggerPhoto,
                  countdownProgress, countdownTotal, camerasReq, hierarchyReqs,
                  pendingEffect >>
  /\ UNCHANGED luumVars

\* as PostWait, but after the last shot the refresh is signalled at once,
\* without the cooldown
PostWaitRefreshesEarly(r) ==
  /\ run[r].pc = "postWait"
  /\ due(r)
  /\ LET j == IF run[r].phases = 1 THEN 0 ELSE run[r].j + 1
     IN IF morePhotos(j)
          THEN /\ countdownProgress' = 0
               /\ countdownTotal' = PHOTO_TIME_SUBSEQUENT
               /\ run' = [effectRuns(pendingEffect, run) EXCEPT ![r] =
                            [@ EXCEPT !.pc = "subsequent", !.i = 0, !.j = j,
                                      !.phases = @ + 1, !.ticks = 0,
                                      !.emitted = 0]]
               /\ pendingEffect' = "none"
               /\ UNCHANGED triggerFileUpdate
          ELSE /\ countdownProgress' = 0
               /\ countdownTotal' = 0
               /\ triggerFileUpdate' = triggerFileUpdate + 1
               /\ pendingEffect' = "files"
               /\ run' = [effectRuns(pendingEffect, run) EXCEPT ![r] =
                            [@ EXCEPT !.pc = "done", !.j = j, !.refreshes = @ + 1]]
  /\ timers' = schedule(effectTimers(pendingEffect, timers), r, run'[r])
  /\ hierarchyReqs' = effectReqs(pendingEffect, hierarchyReqs)
  /\ UNCHANGED << cameras, cameraFiles, triggerPhoto, camerasReq >>
  /\ UNCHANGED luumVars

\* the sleep of line 94 or 104 is over: the next pass of the loop of line
\* 95 (lines 96-99) or, after it, lines 106-108.  setCountdownProgress(0)
\* (line 96 or 106) is the first state update, setCountdownTotal (line 97
\* or 107) follows it: a pending effect that runs in between has its
\* countdown total overwritten.
PostWait(r) ==
  /\ run[r].pc = "postWait"
  /\ due(r)
  /\ \E flush \in BOOLEAN :
       LET j == IF run[r].phases = 1 THEN 0 ELSE run[r].j + 1
           next == IF morePhotos(j)
                     THEN [run[r] EXCEPT !.pc = "subsequent", !.i = 0, !.j = j,
                                         !.phases = @ + 1, !.ticks = 0,
                                         !.emitted = 0]
                     ELSE [run[r] EXCEPT !.pc = "cooldown", !.j = j]
       IN /\ countdownProgress' = 0
          /\ countdownTotal' = IF morePhotos(j) THEN PHOTO_TIME_SUBSEQUENT ELSE 0
          /\ run' = [effectRuns(flushed(flush), run) EXCEPT ![r] = next]
          /\ timers' = schedule(effectTimers(flushed(flush), timers), r, next)
          /\ hierarchyReqs' = effectReqs(flushed(flush), hierarchyReqs)
          /\ pendingEffect' = leftPending(flush)
  /\ UNCHANGED << cameras, cameraFiles, triggerFileUpdate, triggerPhoto,
                  camerasReq >>
  /\ UNCHANGED luumVars

\* as Cooldown, but the sleep is started again instead of going on
CooldownAgain(r) ==
  /\ run[r].pc = "cooldown"
  /\ due(r)
  /\ timers' = schedule(timers, r, run[r])
  /\ UNCHANGED << cameras, cameraFiles, triggerFileUpdate, triggerPhoto,
                  countdownProgress, countdownTotal, camerasReq, hierarchyReqs,
                  run, pendingEffect >>
  /\ UNCHANGED luumVars

\* the sleep of line 108 is over: line 109, the end of the run.  The
\* render with the new triggerFileUpdate makes the file effect pending.
Cooldown(r) ==
  /\ run[r].pc = "cooldown"
  /\ due(r)
  /\ triggerFileUpdate' = triggerFileUpdate + 1
  /\ hierarchyReqs' = effectReqs(pendingEffect, hierarchyReqs)
  /\ run' = [effectRuns(pendingEffect, run) EXCEPT ![r] =
               [@ EXCEPT !.pc = "done", !.refreshes = @ + 1]]
  /\ timers' = schedule(effectTimers(pendingEffect, timers), r, run'[r])
  /\ countdownProgress' = effectProgress(pendingEffect, countdownProgress)
  /\ countdownTotal' = effectTotal(pendingEffect, countdownTotal)
  /\ pendingEffect' = "files"
  /\ UNCHANGED << cameras, cameraFiles, triggerPhoto, camerasReq >>
  /\ UNCHANGED luumVars

Next ==
  \/ \E list \in CameraLists : CamerasResponse(list)
  \/ \E kind \in ErrorKinds : CamerasError(kind)
  \/ HierarchyResponse(SampleTrees)
  \/ \E kind \in ErrorKinds : HierarchyError(kind)
  \/ RunEffects
  \/ Click
  \/ \E r \in Runs : TickInitial(r)
  \/ \E r \in Runs : TickSubsequent(r)
  \/ \E r \in Runs : CaptureResponse(r)
  \/ \E r \in Runs, kind \in ErrorKinds : CaptureError(r, kind)
  \/ \E r \in Runs : PostWait(r)
  \/ \E r \in Runs : Cooldown(r)

Spec == Init /\ [][Next]_vars

(***************************************************************************)
(* The capture sequencer alone, from the state in which the camera list    *)
(* and the first file tree have arrived: the clicks, the effects and the   *)
(* steps of the runs.  A run reads nothing that another action writes (the *)
(* camera list is set once, before the first click), so these are the runs *)
(* of Spec.  FairSpec adds the fairness the event loop gives: a pending    *)
(* effect runs, a timer that is due fires and a request that was sent is   *)
(* answered.  The steps of a run are finitely many, so fairness of "some   *)
(* run or effect takes a step" leaves none behind.                         *)
(***************************************************************************)
InitRun ==
  /\ cameras = Some(<< Camera("A", "usb:1") >>)
  /\ cameraFiles = Some(ScenarioTree)
  /\ triggerFileUpdate = 0
  /\ triggerPhoto = 0
  /\ countdownProgress = 0
  /\ countdownTotal = 0
  /\ camerasReq = 0
  /\ hierarchyReqs = EmptyBag
  /\ run = [r \in Runs |-> NoRun]
  /\ timers = << >>
  /\ pendingEffect = "none"
  /\ InitLuum

RunStep ==
  \/ RunEffects
  \/ \E r \in Runs :
       \/ TickInitial(r)
       \/ TickSubsequent(r)
       \/ CaptureResponse(r)
       \/ \E kind \in ErrorKinds : CaptureError(r, kind)
       \/ PostWait(r)
       \/ Cooldown(r)

NextRun ==
  \/ Click
  \/ RunStep

SpecRun == InitRun /\ [][NextRun]_vars

FairSpec == InitRun /\ [][NextRun]_vars /\ WF_vars(RunStep)

(***************************************************************************)
(* The file tree poller alone: the camera list has arrived, the request    *)
(* for the file tree is pending and is answered with any tree of Trees or  *)
(* with the tree of scenario B.                                            *)
(***************************************************************************)
InitFiles ==
  /\ cameras = Some(<< Camera("A", "usb:1") >>)
  /\ cameraFiles = Undefined
  /\ triggerFileUpdate = 0
  /\ triggerPhoto = 0
  /\ countdownProgress = 0
  /\ countdownTotal = 0
  /\ camerasReq = 0
  /\ hierarchyReqs = SetToBag({1})
  /\ run = [r \in Runs |-> NoRun]
  /\ timers = << >>
  /\ pendingEffect = "none"
  /\ InitLuum

NextFiles ==
  \/ HierarchyResponse(Trees \cup SampleTrees)
  \/ \E kind \in ErrorKinds : HierarchyError(kind)

SpecFiles == InitFiles /\ [][NextFiles]_vars

(***************************************************************************)
(* The settings client, web/luum/src/App.tsx.                              *)
(***************************************************************************)
\* line 292: cameras[listIdx], undefined outside the list
selectedCamera(cams, idx) ==
  IF idx < Len(cams) THEN Some(cams[idx + 1]) ELSE Undefined

\* Array.prototype.indexOf: 0-based index of the first occurrence, or -1
indexOf(list, x) ==
  IF \E k \in 1..Len(list) : list[k] = x
    THEN (CHOOSE k \in 1..Len(list) :
            list[k] = x /\ \A j \in 1..(k - 1) : list[j] # x) - 1
    ELSE -1

\* Array.prototype.includes
includes(list, x) == \E k \in 1..Len(list) : list[k] = x

\* lodash findIndex(settings, {id: id}): 0-based index of the first
\* setting of that id, or -1
findIndex(list, id) ==
  IF \E k \in 1..Len(list) : list[k].id = id
    THEN (CHOOSE k \in 1..Len(list) :
            list[k].id = id /\ \A j \in 1..(k - 1) : list[j].id # id) - 1
    ELSE -1

\* the two iteratees of lines 217-218
criteria(list, favs, setting) ==
  << 0 - indexOf(favs, setting.path), findIndex(list, setting.id) >>

\* lodash compareMultiple, ascending on both criteria: a sorts before b
criteriaLess(a, b) == a[1] < b[1] \/ (a[1] = b[1] /\ a[2] < b[2])

\* lodash sortBy is stable: insert x after every element that does not
\* sort after it
RECURSIVE insertByCriteria(_, _, _, _)
insertByCriteria(sorted, x, list, favs) ==
  IF sorted = << >> THEN << x >>
  ELSE IF ~criteriaLess(criteria(list, favs, x), criteria(list, favs, sorted[1]))
    THEN << sorted[1] >> \o insertByCriteria(Tail(sorted), x, list, favs)
    ELSE << x >> \o sorted

RECURSIVE sortByCriteria(_, _, _)
sortByCriteria(part, list, favs) ==
  IF part = << >> THEN << >>
  ELSE insertByCriteria(sortByCriteria(SubSeq(part, 1, Len(part) - 1), list, favs),
                        part[Len(part)], list, favs)

\* lines 216-219: the settings in the order in which they are displayed
displayed(list, favs) == sortByCriteria(list, list, favs)

\* useLocalStorage, line 206: what the hook reads from the storage under
\* `key` (the initial value [] when nothing is stored)
readValue(storage, key) == storage[key]

\* as toggleFavorite, but a path that is a favorite is added once more
toggleFavoriteAppends(favs, path) == Append(favs, path)

\* lines 227-231: what the click on the star of `path` stores
toggleFavorite(favs, path) ==
  IF includes(favs, path)
    THEN SelectSeq(favs, LAMBDA f : f # path)
    ELSE Append(favs, path)

\* renderSetting, lines 161-204: the types for which a control that calls
\* onChange is rendered
hasControl(type) == type \in {2, 4, 5, 6, 8}

(***************************************************************************)
(* Effects of SettingsList.  As in the photo-booth client, the effects of  *)
(* a render run after it, in a task of their own or before the next        *)
(* render.  A render in which props.camera or triggerRefresh changed makes *)
(* the fetch effect (lines 152-159) pending, with the port of the camera   *)
(* of that render.  The effects of the useLocalStorage hook run with it.   *)
(* Pending effects run before the render a handler causes; react-dom       *)
(* before 18 also runs them before it handles a click or a change, whether *)
(* or not the handler sets state, and renders a state update of a promise  *)
(* continuation at once, while react-dom 18 batches such an update and     *)
(* leaves the effects pending.  So a handler that sets state in an event   *)
(* runs the pending effects, and a handler that sets none or that runs in  *)
(* a continuation runs them or leaves them pending.  Every handler here    *)
(* sets state in its first statement, so effects that run in a handler run *)
(* before it.                                                              *)
(* The hook is not part of the source and its releases differ: after a     *)
(* render with another key some read the storage again in an effect, some  *)
(* keep the value they hold.  The model allows both.  `key` is the new key *)
(* when the render changed the key, "" otherwise.                          *)
(***************************************************************************)
pendingFor(camera, keyChanged) ==
  Some([port |-> camera.port,
        key |-> IF keyChanged THEN camera.name ELSE ""])

\* fetch effect, lines 152-159, up to its await: one GET /api/settings for
\* the port of props.camera
fetchSettings(port, reqs, n) == reqs \cup { [n |-> n + 1, port |-> port] }

\* the requests, their count, the values the hook may hold and what is
\* pending once the pending effects have run (flush) or were left alone
effectSettingsReqs(flush) ==
  IF flush /\ pendingFetch.def
    THEN fetchSettings(pendingFetch.val.port, settingsReqs, fetchesIssued)
    ELSE settingsReqs

effectFetchesIssued(flush) ==
  IF flush /\ pendingFetch.def THEN fetchesIssued + 1 ELSE fetchesIssued

effectFavorites(flush) ==
  IF flush /\ pendingFetch.def /\ pendingFetch.val.key # ""
    THEN { favorites, readValue(localStorage, pendingFetch.val.key) }
    ELSE { favorites }

effectPending(flush) == IF flush THEN Undefined ELSE pendingFetch

\* the pending effects run in their own task
FetchEffect ==
  /\ pendingFetch.def
  /\ settingsReqs' = effectSettingsReqs(TRUE)
  /\ fetchesIssued' = effectFetchesIssued(TRUE)
  /\ favorites' \in effectFavorites(TRUE)
  /\ pendingFetch' = Undefined
  /\ UNCHANGED << luumCameras, luumCamerasReq, listIdx, picked, loading,
                  triggerRefresh, settings, localStorage, shown, update >>
  /\ UNCHANGED simpleVars

\* GET /api/cameras answered, lines 297-298.  With a camera in the list
\* selectedCamera becomes defined: CameraPane and SettingsList mount, the
\* hook reads the favorites of the camera and the fetch effect is pending.
LuumCamerasResponse(list) ==
  /\ luumCamerasReq
  /\ luumCamerasReq' = FALSE
  /\ luumCameras' = list
  /\ IF selectedCamera(list, listIdx).def
       THEN /\ favorites' =
                 readValue(localStorage, selectedCamera(list, listIdx).val.name)
            /\ pendingFetch' =
                 pendingFor(selectedCamera(list, listIdx).val, FALSE)
       ELSE UNCHANGED << favorites, pendingFetch >>
  /\ UNCHANGED << listIdx, picked, loading, triggerRefresh, settings,
                  localStorage, settingsReqs, fetchesIssued, shown, update >>
  /\ UNCHANGED simpleVars

\* GET /api/cameras failed: line 300 logs the error
LuumCamerasError ==
  /\ luumCamerasReq
  /\ luumCamerasReq' = FALSE
  /\ UNCHANGED << luumCameras, listIdx, picked, loading, triggerRefresh,
                  settings, localStorage, settingsReqs, fetchesIssued, shown,
                  update, favorites, pendingFetch >>
  /\ UNCHANGED simpleVars

\* as SelectCamera, but the entries are numbered from 1
SelectCameraFromOne(i) ==
  /\ i \in 0..(Len(luumCameras) - 1)
  /\ i + 1 # listIdx
  /\ picked' = i
  /\ listIdx' = i + 1
  /\ settingsReqs' = effectSettingsReqs(TRUE)
  /\ fetchesIssued' = effectFetchesIssued(TRUE)
  /\ favorites' \in effectFavorites(TRUE)
  /\ pendingFetch' =
       IF selectedCamera(luumCameras, listIdx').def
         THEN pendingFor(selectedCamera(luumCameras, listIdx').val, TRUE)
         ELSE Undefined
  /\ UNCHANGED << luumCameras, luumCamerasReq, loading, triggerRefresh,
                  settings, localStorage, shown, update >>
  /\ UNCHANGED simpleVars

\* the user picks entry i of the Select (an entry other than the one
\* shown), lines 316-318: `e?.target?.value && setListIdx(e.target.value)`.
\* A new listIdx gives SettingsList another props.camera: the pending
\* effects run before the render, which makes the fetch effect pending
\* for the new camera.  When setListIdx is not called the pending effects
\* run before the handler or stay pending.
SelectCamera(i) ==
  /\ i \in 0..(Len(luumCameras) - 1)
  /\ i # listIdx
  /\ picked' = i
  /\ listIdx' = IF i # 0 THEN i ELSE listIdx
  /\ IF listIdx' # listIdx
       THEN /\ settingsReqs' = effectSettingsReqs(TRUE)
            /\ fetchesIssued' = effectFetchesIssued(TRUE)
            /\ favorites' \in effectFavorites(TRUE)
            /\ pendingFetch' =
                 pendingFor(selectedCamera(luumCameras, listIdx').val, TRUE)
       ELSE \E flush \in BOOLEAN :
              /\ settingsReqs' = effectSettingsReqs(flush)
              /\ fetchesIssued' = effectFetchesIssued(flush)
              /\ favorites' \in effectFavorites(flush)
              /\ pendingFetch' = effectPending(flush)
  /\ UNCHANGED << luumCameras, luumCamerasReq, loading, triggerRefresh,
                  settings, localStorage, shown, update >>
  /\ UNCHANGED simpleVars

\* GET /api/settings answered, lines 155-156.  setSettings (line 155) is
\* the first statement of the continuation: pending effects that run in
\* it run before the answer is applied.
SettingsResponse(lists) ==
  /\ \E req \in settingsReqs, flush \in BOOLEAN :
       /\ settingsReqs' = effectSettingsReqs(flush) \ {req}
       /\ fetchesIssued' = effectFetchesIssued(flush)
       /\ favorites' \in effectFavorites(flush)
       /\ pendingFetch' = effectPending(flush)
       /\ shown' = req.n
       /\ \E list \in lists : settings' = list
  /\ loading' = FALSE
  /\ UNCHANGED << luumCameras, luumCamerasReq, listIdx, picked,
                  triggerRefresh, localStorage, update >>
  /\ UNCHANGED simpleVars

\* GET /api/settings failed: line 158 logs the error
SettingsError ==
  /\ \E req \in settingsReqs : settingsReqs' = settingsReqs \ {req}
  /\ UNCHANGED << luumCameras, luumCamerasReq, listIdx, picked, loading,
                  triggerRefresh, settings, localStorage, fetchesIssued, shown,
                  update, favorites, pendingFetch >>
  /\ UNCHANGED simpleVars

\* as ToggleFavorite, but the click always takes the branch of line 230
ToggleFavoriteStale(k) ==
  /\ ~loading
  /\ selectedCamera(luumCameras, listIdx).def
  /\ k \in 1..Len(settings)
  /\ Len(favorites) < Len(SettingPool)
  /\ favorites' = Append(favorites, settings[k].path)
  /\ localStorage' =
       [localStorage EXCEPT
          ![selectedCamera(luumCameras, listIdx).val.name] = favorites']
  /\ settingsReqs' = effectSettingsReqs(TRUE)
  /\ fetchesIssued' = effectFetchesIssued(TRUE)
  /\ pendingFetch' = Undefined
  /\ UNCHANGED << luumCameras, luumCamerasReq, listIdx, picked, loading,
                  triggerRefresh, settings, shown, update >>
  /\ UNCHANGED simpleVars

\* click on the star of the k-th fetched setting, lines 226-232; the list
\* is rendered only while loading is false (line 208).  The new list is
\* made from the value the hook holds when the handler runs and is stored
\* under the name of the camera of the render.  The pending effects run
\* with the click: before the handler, where the hook may have read the
\* storage again, or before the render that setFavorites causes.
ToggleFavorite(k) ==
  /\ ~loading
  /\ selectedCamera(luumCameras, listIdx).def
  /\ k \in 1..Len(settings)
  /\ \E held \in effectFavorites(TRUE) :
       favorites' = toggleFavorite(held, settings[k].path)
  /\ localStorage' =
       [localStorage EXCEPT
          ![selectedCamera(luumCameras, listIdx).val.name] = favorites']
  /\ settingsReqs' = effectSettingsReqs(TRUE)
  /\ fetchesIssued' = effectFetchesIssued(TRUE)
  /\ pendingFetch' = Undefined
  /\ UNCHANGED << luumCameras, luumCamerasReq, listIdx, picked, loading,
                  triggerRefresh, settings, shown, update >>
  /\ UNCHANGED simpleVars

\* the next invocation of the update handler
nextUpdate == Cardinality({ u \in Updates : update[u].pc # "none" }) + 1

\* as startUpdate, but a readonly setting is updated like any other
startUpdateIgnoringReadonly(setting, port) ==
  [NoUpdate EXCEPT !.pc = "put", !.port = port, !.type = setting.type,
                   !.readonly = setting.readonly, !.puts = 1]

\* the update handler up to its await, lines 257-261
startUpdate(setting, port) ==
  IF setting.readonly # 0
    THEN [NoUpdate EXCEPT !.pc = "noop", !.port = port,
                          !.type = setting.type,
                          !.readonly = setting.readonly]
    ELSE [NoUpdate EXCEPT !.pc = "put", !.port = port, !.type = setting.type,
                          !.readonly = setting.readonly, !.puts = 1]

\* onChange of the k-th fetched setting is called, line 256.  MaxUpdates
\* bounds the calls of a behaviour.  The pending effects run before the
\* render that setLoading (line 259) causes; when the handler returns at
\* line 257 they run before it or stay pending.
onChange(k) ==
  /\ ~loading
  /\ selectedCamera(luumCameras, listIdx).def
  /\ k \in 1..Len(settings)
  /\ hasControl(settings[k].type)
  /\ nextUpdate \in Updates
  /\ update' = [update EXCEPT ![nextUpdate] =
                  startUpdate(settings[k],
                              selectedCamera(luumCameras, listIdx).val.port)]
  /\ loading' = IF update'[nextUpdate].pc = "put" THEN TRUE ELSE loading
  /\ \E flush \in BOOLEAN :
       /\ update'[nextUpdate].pc = "put" => flush
       /\ settingsReqs' = effectSettingsReqs(flush)
       /\ fetchesIssued' = effectFetchesIssued(flush)
       /\ favorites' \in effectFavorites(flush)
       /\ pendingFetch' = effectPending(flush)
  /\ UNCHANGED << luumCameras, luumCamerasReq, listIdx, picked,
                  triggerRefresh, settings, localStorage, shown >>
  /\ UNCHANGED simpleVars

\* renderSetting, lines 161-204: every control is disabled for a readonly
\* setting
enabled(setting) == hasControl(setting.type) /\ setting.readonly = 0

\* the user changes the control of the k-th fetched setting: a control
\* that is not disabled calls onChange
UpdateSetting(k) ==
  /\ k \in 1..Len(settings)
  /\ enabled(settings[k])
  /\ onChange(k)

\* onChange is called for any fetched setting with a control, also one
\* whose control is disabled
CallOnChange(k) ==
  /\ k \in 1..Len(settings)
  /\ onChange(k)

\* as tolerated, but only success lets the handler go on
toleratedOnlySuccess(outcome) == outcome = "ok"

\* lines 265-269: the PUT ended with an outcome that the handler tolerates
tolerated(outcome) == outcome \in {"ok", "500"}

\* as finishUpdate, but every failure of the PUT is tolerated
finishUpdateTolerant(rec, outcome) ==
  [rec EXCEPT !.pc = "done", !.outcome = outcome, !.refreshes = @ + 1]

\* lines 261-271 after the await: a failure with status 500 is caught, one
\* with another status is thrown again (line 268), and one without a
\* response throws a TypeError at `resp.status` (line 267)
finishUpdate(rec, outcome) ==
  IF tolerated(outcome)
    THEN [rec EXCEPT !.pc = "done", !.outcome = outcome, !.refreshes = @ + 1]
    ELSE [rec EXCEPT !.pc = "threw", !.outcome = outcome,
                     !.error = IF outcome = "network" THEN "TypeError"
                                                      ELSE "AxiosError"]

\* PUT /api/setting ended, lines 261-271.  When triggerRefresh is
\* incremented (line 271) the pending effects run before the render, which
\* makes the fetch effect pending for the camera of that render.
PutResponse(u, outcome) ==
  /\ update[u].pc = "put"
  /\ update' = [update EXCEPT ![u] = finishUpdate(@, outcome)]
  /\ triggerRefresh' = triggerRefresh + update'[u].refreshes
  /\ IF update'[u].refreshes > 0
       THEN /\ settingsReqs' = effectSettingsReqs(TRUE)
            /\ fetchesIssued' = effectFetchesIssued(TRUE)
            /\ favorites' \in effectFavorites(TRUE)
            /\ pendingFetch' =
                 pendingFor(selectedCamera(luumCameras, listIdx).val, FALSE)
       ELSE UNCHANGED << settingsReqs, fetchesIssued, favorites, pendingFetch >>
  /\ UNCHANGED << luumCameras, luumCamerasReq, listIdx, picked, loading,
                  settings, localStorage, shown >>
  /\ UNCHANGED simpleVars

NextLuum ==
  \/ \E list \in LuumCameraLists : LuumCamerasResponse(list)
  \/ LuumCamerasError
  \/ \E i \in 0..(Len(luumCameras) - 1) : SelectCamera(i)
  \/ FetchEffect
  \/ SettingsResponse(SampleSettings)
  \/ SettingsError
  \/ \E k \in 1..MaxSettings : ToggleFavorite(k)
  \/ \E k \in 1..MaxSettings : UpdateSetting(k)
  \/ \E u \in Updates, outcome \in PutOutcomes : PutResponse(u, outcome)

SpecLuum == Init /\ [][NextLuum]_vars

\* a request of the settings client is answered or fails, or the pending
\* effects run
Answers ==
  \/ \E list \in LuumCameraLists : LuumCamerasResponse(list)
  \/ LuumCamerasError
  \/ FetchEffect
  \/ SettingsResponse(SampleSettings)
  \/ SettingsError
  \/ \E u \in Updates, outcome \in PutOutcomes : PutResponse(u, outcome)

\* the settings client when no request stays unanswered and no effect
\* stays pending forever
FairLuum == Init /\ [][NextLuum]_vars /\ WF_vars(Answers)

(***************************************************************************)
(* The settings list alone: one camera, its first settings request is      *)
(* pending and is answered with any list of SettingsLists; the user stars  *)
(* and unstars the settings shown.                                         *)
(***************************************************************************)
InitSettings ==
  /\ cameras = Undefined
  /\ cameraFiles = Undefined
  /\ triggerFileUpdate = 0
  /\ triggerPhoto = 0
  /\ countdownProgress = 0
  /\ countdownTotal = 0
  /\ camerasReq = 1
  /\ hierarchyReqs = EmptyBag
  /\ run = [r \in Runs |-> NoRun]
  /\ timers = << >>
  /\ pendingEffect = "none"
  /\ luumCameras = << Camera("A", "usb:1") >>
  /\ luumCamerasReq = FALSE
  /\ listIdx = 0
  /\ picked = -1
  /\ loading = TRUE
  /\ triggerRefresh = 0
  /\ settings = << >>
  /\ localStorage = [n \in CameraNames |-> << >>]
  /\ favorites = << >>
  /\ pendingFetch = Undefined
  /\ settingsReqs = { [n |-> 1, port |-> "usb:1"] }
  /\ fetchesIssued = 1
  /\ shown = 0
  /\ update = [u \in Updates |-> NoUpdate]

NextSettings ==
  \/ SettingsResponse(SettingsLists)
  \/ SettingsError
  \/ \E k \in 1..MaxSettings : ToggleFavorite(k)

SpecSettings == InitSettings /\ [][NextSettings]_vars

(***************************************************************************)
(* The update handler: the settings client in which onChange is called     *)
(* for any of the settings shown, whatever the state of its control.       *)
(***************************************************************************)
\* what GET /api/settings answers here: the sample lists, and lists of
\* two readonly settings, with every type in one of them
ReadonlySettings ==
  SampleSettings
    \cup { << Setting(5, "/r", type, 1), Setting(6, "/s", 8 - type, 1) >> :
             type \in 0..8 }

NextHandler ==
  \/ \E list \in LuumCameraLists : LuumCamerasResponse(list)
  \/ LuumCamerasError
  \/ \E i \in 0..(Len(luumCameras) - 1) : SelectCamera(i)
  \/ FetchEffect
  \/ SettingsResponse(ReadonlySettings)
  \/ SettingsError
  \/ \E k \in 1..MaxSettings : CallOnChange(k)
  \/ \E u \in Updates, outcome \in PutOutcomes : PutResponse(u, outcome)

SpecHandler == Init /\ [][NextHandler]_vars

(***************************************************************************)
(* Properties.                                                             *)
(***************************************************************************)
TypeOK ==
  /\ cameras.def \in BOOLEAN
  /\ cameraFiles.def \in BOOLEAN
  /\ triggerPhoto \in 0..MaxRuns
  /\ triggerFileUpdate \in 0..MaxRuns
  /\ camerasReq \in 0..(RETRIES + 1)
  /\ \A r \in Runs : run[r].i \in 0..SPINNER_GRANULARITY
  /\ pendingEffect \in {"none", "files", "photo"}

\* the run is between its start and its end
Active(r) ==
  run[r].pc \in {"initial", "capture", "postWait", "subsequent", "cooldown"}

\* the total of the countdown phase the run entered last
PhaseTotal(r) ==
  IF run[r].phases = 1 THEN PHOTO_TIME_INITIAL ELSE PHOTO_TIME_SUBSEQUENT

----------------------------------------------------------------------------
\* C1 (as stated): every run that has ended has issued exactly NUM_PHOTOS
\* capture requests.
C1_ExactlyNAlways ==
  \A r \in Runs :
    run[r].pc \in {"done", "failed"} => run[r].issued = NUM_PHOTOS

\* C1 (amended): a run never issues more than NUM_PHOTOS capture calls, a
\* run that reaches its cooldown has issued and completed exactly
\* NUM_PHOTOS, a call that has not completed was issued after all
\* SPINNER_GRANULARITY ticks of its own countdown phase (the phase with the
\* call's number), and phase k + 1 has begun only when call k has completed.
C1_CapturesPerCompletedRun ==
  \A r \in Runs :
    /\ run[r].issued <= NUM_PHOTOS
    /\ run[r].completed <= run[r].issued
    /\ run[r].issued <= run[r].phases
    /\ run[r].pc \in {"cooldown", "done"} =>
         run[r].issued = NUM_PHOTOS /\ run[r].completed = NUM_PHOTOS
    /\ run[r].issued > run[r].completed =>
         run[r].ticks = SPINNER_GRANULARITY /\ run[r].phases = run[r].issued
    /\ run[r].phases <= run[r].completed + 1

C1_Witness ==
  \E r \in Runs : run[r].pc = "done" /\ run[r].completed = NUM_PHOTOS

----------------------------------------------------------------------------
\* C2: a click while a run is active starts nothing, so at most one run is
\* ever between its start and its end.
C2_NoSecondRun == Cardinality({ r \in Runs : Active(r) }) <= 1

----------------------------------------------------------------------------
\* C3: at most one capture call is in flight.
C3_CapturesSerialized ==
  Cardinality({ r \in Runs : run[r].pc = "capture" }) <= 1

----------------------------------------------------------------------------
\* C4: for each shot at most one capture HTTP request is sent.
C4_NoCaptureRetry == \A r \in Runs : run[r].attempts <= 1

----------------------------------------------------------------------------
\* C5: a run one of whose capture calls threw has stopped there: it is in
\* its failed state, the throwing call is its last, no countdown phase was
\* begun after that call's phase, and it signalled no refresh.
C5_FailureAborts ==
  \A r \in Runs :
    run[r].rejected > 0 =>
      /\ run[r].pc = "failed"
      /\ run[r].rejected = 1
      /\ run[r].issued = run[r].completed + 1
      /\ run[r].phases = run[r].issued
      /\ run[r].refreshes = 0

C5_Witness ==
  \E r \in Runs :
    run[r].rejected > 0 /\ run[r].completed = 1 /\ run[r].phases < NUM_PHOTOS

----------------------------------------------------------------------------
\* C6: in a countdown phase of total D the k-th progress value a run sets
\* is D * k / G, there are never more than G of them, a run that has left
\* the phase has set G of them, the last being D, and within a phase each
\* value is at least the one before; the countdown shows the value set,
\* unless the effect of a click that was pending resets it in that step.
C6_State ==
  \A r \in Runs :
    run[r].pc # "none" =>
      /\ run[r].ticks \in 0..SPINNER_GRANULARITY
      /\ run[r].emitted * SPINNER_GRANULARITY = PhaseTotal(r) * run[r].ticks
      /\ run[r].pc \notin {"initial", "subsequent"} =>
           run[r].ticks = SPINNER_GRANULARITY /\ run[r].emitted = PhaseTotal(r)

C6_Step ==
  \A r \in Runs :
    run'[r].phases = run[r].phases /\ run'[r].ticks # run[r].ticks =>
      /\ run'[r].ticks = run[r].ticks + 1
      /\ run'[r].emitted >= run[r].emitted
      /\ countdownProgress' = run'[r].emitted
           \/ (pendingEffect = "photo" /\ countdownProgress' = 0)

C6_ProgressValues == []C6_State /\ [][C6_Step]_vars

C6_Witness ==
  \E r \in Runs :
    run[r].pc = "capture" /\ run[r].phases = 2 /\ run[r].emitted = 3000

----------------------------------------------------------------------------
\* C7: the displayed progress never decreases except to 0.
C7_OnlyResetsDecrease ==
  [][countdownProgress' >= countdownProgress \/ countdownProgress' = 0]_vars

----------------------------------------------------------------------------
\* C8 (as stated): the countdown total is 0 only after the cooldown, so it
\* is not 0 while a run is in its cooldown.
C8_IdleAfterCooldown ==
  \A r \in Runs : run[r].pc = "cooldown" => countdownTotal # 0

\* the file effect is pending
FilesPending == IF pendingEffect = "files" THEN 1 ELSE 0

\* C8 (amended): a run signals the refresh at most once, exactly when it
\* ends after all its shots; the signal comes from the cooldown, after the
\* last capture call completed, and makes the file effect pending, which
\* sends one GET /api/hierarchy when it runs: the requests sent and the
\* one about to be sent are as many as the runs that have ended after all
\* their shots.  The countdown total is set to 0 when the cooldown begins,
\* not when it ends.
C8_State ==
  /\ \A r \in Runs :
       /\ run[r].refreshes \in {0, 1}
       /\ run[r].refreshes = 1 <=> run[r].pc = "done"
       /\ run[r].pc = "done" => run[r].completed = NUM_PHOTOS
  /\ triggerFileUpdate = Cardinality({ r \in Runs : run[r].pc = "done" })
  /\ BagCardinality(hierarchyReqs) + FilesPending = triggerFileUpdate

C8_Step ==
  /\ \A r \in Runs :
       /\ run'[r].refreshes # run[r].refreshes =>
            /\ run[r].pc = "cooldown"
            /\ run[r].completed = NUM_PHOTOS
            /\ triggerFileUpdate' = triggerFileUpdate + 1
            /\ pendingEffect' = "files"
       /\ run'[r].pc = "cooldown" /\ run[r].pc # "cooldown" =>
            /\ countdownTotal' = 0
            /\ countdownProgress' = 0
            /\ run'[r].refreshes = 0
  /\ hierarchyReqs' # hierarchyReqs =>
       /\ pendingEffect = "files"
       /\ BagCardinality(hierarchyReqs') = BagCardinality(hierarchyReqs) + 1

C8_RefreshAfterCooldown == []C8_State /\ [][C8_Step]_vars

\* a run has ended after all its shots and its request was sent
C8_Witness ==
  /\ \E r \in Runs : run[r].pc = "done" /\ run[r].refreshes = 1
  /\ pendingEffect = "none"
  /\ BagCardinality(hierarchyReqs) = 1

----------------------------------------------------------------------------
\* C9: no run stays in a countdown, capture or wait forever: again and
\* again every run that has started has ended, either done with its
\* refresh signalled or failed on a capture call.
C9_RunsEnd ==
  []<>(\A r \in Runs :
         \/ run[r].pc = "none"
         \/ run[r].pc = "done" /\ run[r].refreshes = 1
         \/ run[r].pc = "failed" /\ run[r].rejected = 1)

C9_Witness ==
  /\ \A r \in Runs : run[r].pc \in {"done", "failed"}
  /\ \E r \in Runs : run[r].pc = "done"
  /\ \E r \in Runs : run[r].pc = "failed"

----------------------------------------------------------------------------
\* position of an entry in the depth-first left-to-right traversal
TraversalPos(all, e) == CHOOSE k \in 1..Len(all) : all[k] = e

\* latest is descending by mtime, its entries of equal mtime in their
\* traversal order (forward) or in the reverse of it
Ranked(all, latest, forward) ==
  \A k, l \in 1..Len(latest) :
    k < l =>
      \/ latest[k][2].mtime > latest[l][2].mtime
      \/ /\ latest[k][2].mtime = latest[l][2].mtime
         /\ IF forward
              THEN TraversalPos(all, latest[k]) < TraversalPos(all, latest[l])
              ELSE TraversalPos(all, latest[k]) > TraversalPos(all, latest[l])

\* latest has at most 3 entries, all of them entries of the traversal
Capped(all, latest) ==
  /\ Len(latest) <= 3
  /\ \A k \in 1..Len(latest) : \E m \in 1..Len(all) : all[m] = latest[k]

\* C10 (as stated): at most 3 entries, descending by mtime, entries of
\* equal mtime in traversal order.
C10_TiesInTraversalOrder ==
  cameraFiles.def =>
    /\ Capped(flatten(cameraFiles.val), latestFiles(cameraFiles))
    /\ Ranked(flatten(cameraFiles.val), latestFiles(cameraFiles), TRUE)

\* C10 (amended): at most 3 entries, descending by mtime, entries of equal
\* mtime in the reverse of their traversal order.
C10_TiesInReverseTraversalOrder ==
  cameraFiles.def =>
    /\ Capped(flatten(cameraFiles.val), latestFiles(cameraFiles))
    /\ Ranked(flatten(cameraFiles.val), latestFiles(cameraFiles), FALSE)

C10_Witness ==
  /\ cameraFiles.def
  /\ Len(flatten(cameraFiles.val)) > 3
  /\ LET latest == latestFiles(cameraFiles)
     IN Len(latest) = 3 /\ latest[1][2].mtime = latest[2][2].mtime

----------------------------------------------------------------------------
(***************************************************************************)
(* The nodes of a file tree by position: the position of a node is the     *)
(* sequence of child indexes leading to it from the root.  The depth-first *)
(* left-to-right traversal visits the files in the lexicographic order of  *)
(* their positions (a file has no children, so no file's position is a     *)
(* prefix of another's).                                                   *)
(***************************************************************************)
RECURSIVE Positions(_)
Positions(node) ==
  IF node.type = "folder"
    THEN UNION { { << k >> } \cup
                 { << k >> \o q : q \in Positions(node.children[k]) } :
                 k \in 1..Len(node.children) }
    ELSE {}

RECURSIVE NodeAt(_, _)
NodeAt(node, pos) ==
  IF pos = << >> THEN node ELSE NodeAt(node.children[pos[1]], Tail(pos))

\* "/" + name of every folder between the root and the node at pos,
\* outermost first
RECURSIVE PathTo(_, _)
PathTo(node, pos) ==
  IF Len(pos) <= 1 THEN ""
  ELSE "/" \o node.children[pos[1]].name
           \o PathTo(node.children[pos[1]], Tail(pos))

IsJpeg(node) == node.type = "file" /\ node.mimetype = "image/jpeg"

JpegPositions(tree) == { q \in Positions(tree) : IsJpeg(NodeAt(tree, q)) }

LexLess(a, b) ==
  \E k \in 1..(IF Len(a) < Len(b) THEN Len(a) ELSE Len(b)) :
    a[k] < b[k] /\ \A j \in 1..(k - 1) : a[j] = b[j]

\* the place of position q among the positions J in traversal order
Rank(J, q) == Cardinality({ o \in J : LexLess(o, q) }) + 1

\* flat lists the files at the positions J of tree, in traversal order
ListsFiles(tree, flat, J) ==
  /\ Len(flat) = Cardinality(J)
  /\ \A q \in J : flat[Rank(J, q)][2] = NodeAt(tree, q)

\* C11: the flattened list is exactly the files of mimetype image/jpeg of
\* the tree, one entry per such file, in depth-first left-to-right order.
C11_FlattenIsJpegTraversal ==
  cameraFiles.def =>
    ListsFiles(cameraFiles.val, flatten(cameraFiles.val),
               JpegPositions(cameraFiles.val))

\* a tree with a jpeg three levels down, a jpeg at the root after the
\* folder, and a file that is not a jpeg
C11_Witness ==
  /\ cameraFiles.def
  /\ \E q \in JpegPositions(cameraFiles.val) : Len(q) = 3
  /\ \E q \in JpegPositions(cameraFiles.val) : Len(q) = 1 /\ q[1] > 1
  /\ \E q \in Positions(cameraFiles.val) :
       /\ NodeAt(cameraFiles.val, q).type = "file"
       /\ ~IsJpeg(NodeAt(cameraFiles.val, q))
  /\ ListsFiles(cameraFiles.val, flatten(cameraFiles.val),
                JpegPositions(cameraFiles.val))

\* flat pairs the file at every position of J with the path of its folder
ListsPaths(tree, flat, J) ==
  /\ Len(flat) = Cardinality(J)
  /\ \A q \in J : flat[Rank(J, q)][1] = PathTo(tree, q)

ScenarioLatest ==
  << << "/DCIM", File("c.jpg", 300, "image/jpeg") >>,
     << "/DCIM", File("a.jpg", 100, "image/jpeg") >> >>

\* C19: the path paired with a flattened file is "/" + name of each folder
\* between the root and the file, outermost first, without the root's own
\* name; the tree of scenario B gives [("/DCIM", c.jpg), ("/DCIM", a.jpg)].
C19_PathsBelowRoot ==
  cameraFiles.def =>
    /\ ListsPaths(cameraFiles.val, flatten(cameraFiles.val),
                  JpegPositions(cameraFiles.val))
    /\ cameraFiles.val = ScenarioTree => latestFiles(cameraFiles) = ScenarioLatest

\* the tree of scenario B has arrived
C19_Witness ==
  /\ cameraFiles = Some(ScenarioTree)
  /\ latestFiles(cameraFiles) = ScenarioLatest
  /\ flatten(cameraFiles.val)[1][1] = "/DCIM"

----------------------------------------------------------------------------
\* C16: once the GET /api/cameras call has ended, by an answer or by a
\* failure, the client holds a camera list (the empty list after a
\* failure), so it never holds `undefined` with no call pending.
C16_FailureYieldsEmptyList == camerasReq = 0 => cameras.def

----------------------------------------------------------------------------
\* C17: a read call sends at most 3 HTTP requests in total.
C17_AtMostThreeAttempts ==
  /\ camerasReq <= 3
  /\ \A a \in BagToSet(hierarchyReqs) : a <= 3

----------------------------------------------------------------------------
\* d lists the settings of `list`, the favorites before the others, the
\* favorites among themselves and the others among themselves in the order
\* of `list`
FavoritesFirstInFetchOrder(list, favs, d) ==
  /\ Len(d) = Len(list)
  /\ \A k, l \in 1..Len(d) :
       k < l =>
         /\ includes(favs, d[l].path) => includes(favs, d[k].path)
         /\ includes(favs, d[k].path) = includes(favs, d[l].path)
              => indexOf(list, d[k]) < indexOf(list, d[l])

\* C12: the settings are displayed favorites first, and within the
\* favorites and within the non-favorites in the order in which they were
\* fetched, whatever the order of the favorites list.
C12_FavoritesFirstInFetchOrder ==
  FavoritesFirstInFetchOrder(
    settings, favorites, displayed(settings, favorites))

----------------------------------------------------------------------------
\* the fetch effect is pending
FetchPending == IF pendingFetch.def THEN 1 ELSE 0

\* the renders that made the fetch effect pending: the mount of the
\* settings list, the change of camera (listIdx leaves 0 once, for the
\* second of the two cameras) and the updates that incremented
\* triggerRefresh
Fetches ==
  (IF selectedCamera(luumCameras, listIdx).def THEN 1 ELSE 0)
    + listIdx + triggerRefresh

C13_State ==
  /\ \A u \in Updates :
       /\ update[u].pc # "none" /\ update[u].readonly = 0 => update[u].puts = 1
       /\ update[u].outcome \in {"ok", "500"} <=> update[u].pc = "done"
       /\ update[u].pc = "done" =>
            /\ update[u].puts = 1
            /\ update[u].refreshes = 1
            /\ update[u].error = "none"
  /\ triggerRefresh = Cardinality({ u \in Updates : update[u].pc = "done" })
  /\ fetchesIssued + FetchPending = Fetches

C13_Step ==
  /\ \A u \in Updates :
       update[u].pc = "put" /\ update'[u].pc = "done" =>
         /\ triggerRefresh' = triggerRefresh + 1
         /\ pendingFetch' =
              pendingFor(selectedCamera(luumCameras, listIdx).val, FALSE)
         /\ fetchesIssued' = fetchesIssued + FetchPending
  /\ fetchesIssued' # fetchesIssued =>
       /\ pendingFetch.def
       /\ fetchesIssued' = fetchesIssued + 1
       /\ settingsReqs' \ settingsReqs =
            { [n |-> fetchesIssued', port |-> pendingFetch.val.port] }

\* C13: an update of a setting that is not readonly sends one PUT; when
\* the PUT ends with success or with status 500 the handler returns
\* without an error, having incremented triggerRefresh once, which makes
\* the fetch effect pending for the selected camera; the effect issues one
\* GET /api/settings when it runs, so the requests issued and the one
\* about to be issued are one for the mount of the list, one for each
\* change of camera and one for each update that ended this way.
C13_ToleratedUpdateRefetchesOnce == []C13_State /\ [][C13_Step]_vars

\* an update has ended with status 500 and the list was fetched again
C13_Witness ==
  \E u \in Updates :
    /\ update[u].pc = "done"
    /\ update[u].outcome = "500"
    /\ update[u].refreshes = 1
    /\ ~pendingFetch.def
    /\ fetchesIssued = 2
    /\ triggerRefresh = 1

----------------------------------------------------------------------------
C14_State ==
  \A u \in Updates :
    update[u].outcome \in {"400", "network"} =>
      /\ update[u].pc = "threw"
      /\ update[u].error # "none"
      /\ update[u].refreshes = 0

C14_Step ==
  \A u \in Updates :
    update[u].pc = "put" /\ update'[u].pc = "threw" =>
      UNCHANGED << triggerRefresh, fetchesIssued, settingsReqs, pendingFetch >>

\* C14: when the PUT ends with a status other than 500 or without a
\* response, the handler's promise is rejected, triggerRefresh is not
\* incremented and no GET /api/settings is issued.
C14_OtherFailurePropagates == []C14_State /\ [][C14_Step]_vars

\* updates have been rejected, one after a PUT without response
C14_Witness ==
  \E u \in Updates :
    /\ update[u].pc = "threw"
    /\ update[u].outcome = "network"
    /\ update[u].error = "TypeError"
    /\ update[u].refreshes = 0

----------------------------------------------------------------------------
C15_State ==
  \A u \in Updates :
    update[u].pc # "none" /\ update[u].readonly # 0 =>
      /\ update[u].pc = "noop"
      /\ update[u].puts = 0
      /\ update[u].refreshes = 0

C15_Step ==
  \A u \in Updates :
    update[u].pc = "none" /\ update'[u].pc # "none"
      /\ update'[u].readonly # 0 =>
        /\ UNCHANGED << loading, triggerRefresh, settings >>
        /\ fetchesIssued' + (IF pendingFetch'.def THEN 1 ELSE 0)
             = fetchesIssued + FetchPending

\* C15: the update handler invoked for a readonly setting returns at once:
\* no PUT is sent, loading is not set, triggerRefresh is not incremented
\* and no GET /api/settings is caused: the requests issued and the one
\* about to be issued stay as many as they were.
C15_ReadonlyIsNoOp == []C15_State /\ [][C15_Step]_vars

\* the handler was invoked for readonly settings of two types
C15_Witness ==
  \E u, v \in Updates :
    /\ update[u].pc = "noop"
    /\ update[u].readonly # 0
    /\ update[v].pc = "noop"
    /\ update[v].readonly # 0
    /\ update[u].type = 2
    /\ update[v].type = 6
    /\ ~loading

----------------------------------------------------------------------------
PortsOf(cams) == { cams[k].port : k \in 1..Len(cams) }

\* C18: listIdx is an index of the camera list, or no camera is selected
\* (selectedCamera is undefined and no pane is rendered), and every request
\* of the settings list is for the port of a camera of the list.
C18_SelectionValidOrNone ==
  /\ listIdx < Len(luumCameras)
       \/ (listIdx = 0 /\ ~selectedCamera(luumCameras, listIdx).def)
  /\ \A req \in settingsReqs : req.port \in PortsOf(luumCameras)
  /\ pendingFetch.def => pendingFetch.val.port \in PortsOf(luumCameras)
  /\ \A u \in Updates :
       update[u].pc # "none" => update[u].port \in PortsOf(luumCameras)

\* the second camera is selected and its settings were requested
C18_Witness ==
  /\ Len(luumCameras) = 2
  /\ listIdx = 1
  /\ \E req \in settingsReqs : req.port = luumCameras[2].port

----------------------------------------------------------------------------
AllPaths == { SettingPool[k].path : k \in 1..Len(SettingPool) }

Members(list) == { list[k] : k \in 1..Len(list) }

\* toggling path in favs flips the membership of path, keeps that of every
\* other path, and toggling it again gives the members of favs
TogglesOnly(favs, path) ==
  /\ includes(toggleFavorite(favs, path), path) = ~includes(favs, path)
  /\ Members(toggleFavorite(favs, path)) \ {path} = Members(favs) \ {path}
  /\ Members(toggleFavorite(toggleFavorite(favs, path), path)) = Members(favs)

C20_State ==
  \A path \in AllPaths :
    /\ TogglesOnly(favorites, path)
    /\ \A n \in CameraNames : TogglesOnly(localStorage[n], path)

C20_Step ==
  /\ localStorage' # localStorage =>
       /\ \E k \in 1..Len(settings) :
            /\ \E held \in { favorites,
                              readValue(localStorage,
                                selectedCamera(luumCameras, listIdx).val.name) } :
                 favorites' = toggleFavorite(held, settings[k].path)
            /\ localStorage' =
                 [localStorage EXCEPT
                    ![selectedCamera(luumCameras, listIdx).val.name] =
                       favorites']
       /\ UNCHANGED << settings, shown, triggerRefresh, update >>
       /\ fetchesIssued' + (IF pendingFetch'.def THEN 1 ELSE 0)
            = fetchesIssued + FetchPending
  /\ favorites' # favorites =>
       favorites' =
         readValue(localStorage',
                   selectedCamera(luumCameras', listIdx').val.name)

\* C20: a toggle flips the membership of its path in the favorites the
\* list holds when the handler runs (the value held, or what the hook has
\* just read for the selected camera) and of no other path, a second
\* toggle of the path restores the members, and the result is stored
\* under the name of the selected camera.  The stored favorites change in no step but the toggle of a
\* displayed setting: not when a settings request is issued or answered,
\* not in an update; the favorites the list holds change otherwise only
\* to what is stored for the selected camera.
C20_ToggleFlipsOnePath == []C20_State /\ [][C20_Step]_vars

\* favorites were starred and unstarred, an update has refreshed the list
C20_Witness ==
  /\ localStorage["A"] = << "/b", "/a" >>
  /\ localStorage["B"] = << "/a" >>
  /\ favorites = << "/a" >>
  /\ \E u \in Updates : update[u].pc = "done"
  /\ shown > 1

----------------------------------------------------------------------------
\* C21: when every request is eventually answered, an update whose PUT was
\* sent is followed by a state in which loading is false.
C21_BusyEventuallyCleared ==
  \A u \in Updates : (update[u].pc = "put") ~> ~loading

----------------------------------------------------------------------------
\* C22: the answer that `settings` holds is never replaced by the answer
\* to a request issued before its own, so the list shown never goes back
\* to an older request.
C22_NoStaleOverwrite == [][shown' >= shown]_vars

----------------------------------------------------------------------------
\* C23: while loading is false no PUT /api/setting is in flight, and at
\* most one is in flight at any time.
C23_NoPutWhileIdle ==
  /\ ~loading => \A u \in Updates : update[u].pc # "put"
  /\ Cardinality({ u \in Updates : update[u].pc = "put" }) <= 1

----------------------------------------------------------------------------
\* C24: once the user has picked an entry of the Select, listIdx is the
\* entry picked last, so the selected camera is cameras[i].
C24_SelectionFollowsPick == picked # -1 => listIdx = picked

----------------------------------------------------------------------------
NoDuplicates(list) ==
  \A k, l \in 1..Len(list) : k # l => list[k] # list[l]

\* C25: no favorites list holds a path twice.
C25_FavoritesWithoutDuplicates ==
  /\ NoDuplicates(favorites)
  /\ \A n \in CameraNames : NoDuplicates(localStorage[n])

\* paths were starred, unstarred and starred again for both cameras, and
\* updates and fetches have happened in between
C25_Witness ==
  /\ localStorage["A"] = << "/a", "/b" >>
  /\ localStorage["B"] = << "/a", "/b" >>
  /\ favorites = << "/a", "/b" >>
  /\ \E u \in Updates : update[u].pc = "threw"
  /\ \E u \in Updates : update[u].pc = "done"
  /\ fetchesIssued >= 3

====
